---- MODULE Spec2Model ----
(***************************************************************************)
(* Price-history store, deal evaluation and the multi-date search job of   *)
(* GoogleFlightsScraper (src/scrapers/flights_scraper.py).                 *)
(*                                                                         *)
(* Numbers.  Observed prices are whole currency units.  Every derived      *)
(* money field of a profile (min_price, max_price, avg_price,              *)
(* last_month_avg, last_week_avg) is a float in the code and a fixed-point *)
(* integer here, in 1/FP of a unit, rounded half up.  Discounts are in     *)
(* hundredths of a percent (round(x, 2)).  last_updated is a write-only    *)
(* date string and is left out of the profile.                             *)
(***************************************************************************)
EXTENDS Integers, Sequences, FiniteSets, TLC

\* ------------------------------------------------------------- constants
FP == 10 * 10 * 10

HistoryCap == 100
SeasonCap == 3
MonthWindow == 30
WeekWindow == 7
AlphaTenths == 1
BaseThreshold == 35
TrendStep == 5

\* --------------------------------------------------------------- bounds
MaxCalls == 3
MaxRuns == 2
NumMonths == 2
MaxKeyCalls == 4
FifoLen == 106
NumDays == 3
MaxWorkers == 2
RaceWorkers == 2
RaceM == 2
MaxDealCalls == 4
MaxPlanDays == 3
PairDays == 3
MaxStay == 3
MaxFlights == 3
MaxCards == 3
MaxRetryArg == 4

MaxRetries == 3

Keys == {"A-B-Economy", "A-B-Business"}
TheKey == "A-B-Economy"
Prices == {10, 20, 30}
RunPrices == {10, 20}
DealPrices == {10, 16, 20, 70, 100}
Months == 1..NumMonths
SaveOutcomes == {"ok", "open_failed", "write_failed"}

\* -------------------------------------------------------------- helpers
Milli(p) == p * FP

RoundDiv(n, d) == (n + d \div 2) \div d

Min2(a, b) == IF a < b THEN a ELSE b

Max2(a, b) == IF a > b THEN a ELSE b

LastN(s, n) == IF Len(s) <= n THEN s ELSE SubSeq(s, Len(s) - n + 1, Len(s))

FirstN(s, n) == IF Len(s) <= n THEN s ELSE SubSeq(s, 1, n)

RECURSIVE SumSeq(_)
SumSeq(s) == IF s = <<>> THEN 0 ELSE Head(s) + SumSeq(Tail(s))

Mean(s) == RoundDiv(Milli(SumSeq(s)), Len(s))

IntKey(m) == <<"int", m>>

StrKey(m) == <<"str", m>>

\* ------------------------------------------- _check_if_good_deal, parts
\* a seed with the average at twice the price
InitialProfileHigh(p) ==
  [min_price |-> Milli(p),
   max_price |-> (Milli(p) * 15) \div 10,
   avg_price |-> Milli(p) * 2,
   count |-> 1,
   prices |-> <<p>>,
   seasonal_factors |-> <<>>,
   last_month_avg |-> Milli(p),
   last_week_avg |-> Milli(p),
   price_trend |-> "stable"]

\* lines 362-373 (and the two copies at 376-387, 391-402)
InitialProfile(p) ==
  [min_price |-> Milli(p),
   max_price |-> (Milli(p) * 15) \div 10,
   avg_price |-> (Milli(p) * 13) \div 10,
   count |-> 1,
   prices |-> <<p>>,
   seasonal_factors |-> <<>>,
   last_month_avg |-> Milli(p),
   last_week_avg |-> Milli(p),
   price_trend |-> "stable"]

\* line 408
UpdateMin(old, p) == Min2(old, Milli(p))

\* line 409
MaxPriceDropped(old, p) == old

UpdateMax(old, p) == Max2(old, Milli(p))

\* lines 413-414: keep the last HistoryCap prices
TrimKeepOldest(s) == FirstN(s, HistoryCap)

TrimHistory(s) == IF Len(s) > HistoryCap THEN LastN(s, HistoryCap) ELSE s

\* the average without the weight 1 - alpha on its old value
UpdateAvgUndamped(avg, p) == RoundDiv(AlphaTenths * Milli(p) + 10 * avg, 10)

\* line 418
UpdateAvg(avg, p) ==
  RoundDiv(AlphaTenths * Milli(p) + (10 - AlphaTenths) * avg, 10)

\* the week's mean taken of whatever history there is
WeekAvgOfAvailable(old, prices) == Mean(LastN(prices, WeekWindow))

\* lines 421-422
UpdateMonthAvg(old, prices) ==
  IF Len(prices) >= MonthWindow THEN Mean(LastN(prices, MonthWindow)) ELSE old

\* lines 423-424
UpdateWeekAvg(old, prices) ==
  IF Len(prices) >= WeekWindow THEN Mean(LastN(prices, WeekWindow)) ELSE old

\* lines 427-434
TrendNonStrict(old, prices) ==
  IF Len(prices) >= 3
  THEN LET l == LastN(prices, 3)
       IN IF l[1] <= l[2] /\ l[2] <= l[3] THEN "increasing"
          ELSE IF l[1] >= l[2] /\ l[2] >= l[3] THEN "decreasing"
          ELSE "stable"
  ELSE old

UpdateTrend(old, prices) ==
  IF Len(prices) >= 3
  THEN LET l == LastN(prices, 3)
       IN IF l[1] < l[2] /\ l[2] < l[3] THEN "increasing"
          ELSE IF l[1] > l[2] /\ l[2] > l[3] THEN "decreasing"
          ELSE "stable"
  ELSE old

\* lines 437-445: the clock's month is an int key; every key is trimmed
SeasonalKeepOldest(sf, m, p) ==
  LET k == IntKey(m)
      added == [x \in DOMAIN sf \cup {k} |->
                  IF x = k
                  THEN Append(IF k \in DOMAIN sf THEN sf[k] ELSE <<>>, p)
                  ELSE sf[x]]
  IN [x \in DOMAIN added |-> FirstN(added[x], SeasonCap)]

UpdateSeasonal(sf, m, p) ==
  LET k == IntKey(m)
      added == [x \in DOMAIN sf \cup {k} |->
                  IF x = k
                  THEN Append(IF k \in DOMAIN sf THEN sf[k] ELSE <<>>, p)
                  ELSE sf[x]]
  IN [x \in DOMAIN added |->
        IF Len(added[x]) > SeasonCap THEN LastN(added[x], SeasonCap)
        ELSE added[x]]

\* lines 448-451
SeasonalAvg(pd, m) ==
  IF IntKey(m) \in DOMAIN pd.seasonal_factors
     /\ pd.seasonal_factors[IntKey(m)] # <<>>
  THEN Mean(pd.seasonal_factors[IntKey(m)])
  ELSE pd.avg_price

\* lines 405-455: the statistics update of one observation
UpdateProfile(pd, p, m) ==
  LET prices == TrimHistory(Append(pd.prices, p))
  IN [min_price |-> UpdateMin(pd.min_price, p),
      max_price |-> UpdateMax(pd.max_price, p),
      avg_price |-> UpdateAvg(pd.avg_price, p),
      count |-> pd.count + 1,
      prices |-> prices,
      seasonal_factors |-> UpdateSeasonal(pd.seasonal_factors, m, p),
      last_month_avg |-> UpdateMonthAvg(pd.last_month_avg, prices),
      last_week_avg |-> UpdateWeekAvg(pd.last_week_avg, prices),
      price_trend |-> UpdateTrend(pd.price_trend, prices)]

\* lines 461-464: round(((base - price) / base) * 100, 2), in hundredths
Discount(base, p) == RoundDiv((base - Milli(p)) * 10000, base)

\* line 467
DiscountPct(pd, p, m) ==
  Max2(Max2(Discount(pd.avg_price, p), Discount(pd.last_month_avg, p)),
       Max2(Discount(pd.last_week_avg, p), Discount(SeasonalAvg(pd, m), p)))

\* lines 470-478
ThresholdFixed(trend) == BaseThreshold

Threshold(trend) ==
  IF trend = "increasing" THEN BaseThreshold - TrendStep
  ELSE IF trend = "decreasing" THEN BaseThreshold + TrendStep
  ELSE BaseThreshold

\* line 481
IsGoodDeal(disc, trend) == disc >= Threshold(trend) * 100

\* ------------------------------------------------- price_database.json
\* json.dump writes every dict key as a string and json.load keeps the last
\* of two equal keys; an int month key is always inserted after the string
\* key read from the file, so it is the one that survives.
JsonKeys(sf) ==
  [k \in {StrKey(x[2]) : x \in DOMAIN sf} |->
     IF IntKey(k[2]) \in DOMAIN sf THEN sf[IntKey(k[2])] ELSE sf[k]]

JsonProfile(pd) == [pd EXCEPT !.seasonal_factors = JsonKeys(@)]

\* line 489: the whole in-memory database, and nothing else
JsonDump(db) == [k \in DOMAIN db |-> JsonProfile(db[k])]

NoFile == [exists |-> FALSE, corrupt |-> FALSE, content |-> <<>>]

\* a save that leaves the profiles already in the file as they are
SaveOnlyNewKeys(db, f, outcome) ==
  IF outcome = "ok"
  THEN [exists |-> TRUE, corrupt |-> FALSE,
        content |-> [k \in DOMAIN db |->
                       IF f.exists /\ ~f.corrupt /\ k \in DOMAIN f.content
                       THEN f.content[k] ELSE JsonDump(db)[k]]]
  ELSE IF outcome = "write_failed"
  THEN [exists |-> TRUE, corrupt |-> TRUE, content |-> <<>>]
  ELSE f

\* lines 485-491: open(..., 'w') truncates; an error is logged and dropped
SavePriceDatabase(db, f, outcome) ==
  IF outcome = "ok"
  THEN [exists |-> TRUE, corrupt |-> FALSE, content |-> JsonDump(db)]
  ELSE IF outcome = "write_failed"
  THEN [exists |-> TRUE, corrupt |-> TRUE, content |-> <<>>]
  ELSE f

\* lines 352-402: the profile the update starts from
StartProfile(db, f, key, p) ==
  IF key \in DOMAIN db THEN db[key]
  ELSE IF f.exists /\ ~f.corrupt /\ key \in DOMAIN f.content
  THEN f.content[key]
  ELSE InitialProfile(p)

\* lines 352-402: whether the call seeds a new profile
Creates(db, f, key) ==
  /\ key \notin DOMAIN db
  /\ ~(f.exists /\ ~f.corrupt /\ key \in DOMAIN f.content)

Put(db, key, pd) == [k \in DOMAIN db \cup {key} |-> IF k = key THEN pd ELSE db[k]]

\* lines 340-483, run by one thread alone
CheckIfGoodDealStale(db, f, key, p, m, outcome) ==
  LET before == StartProfile(db, f, key, p)
      pd == UpdateProfile(before, p, m)
      newdb == Put(db, key, pd)
      disc == DiscountPct(before, p, m)
  IN [db |-> newdb,
      file |-> SavePriceDatabase(newdb, f, outcome),
      is_good_deal |-> IsGoodDeal(disc, pd.price_trend),
      discount |-> disc]

CheckIfGoodDeal(db, f, key, p, m, outcome) ==
  LET pd == UpdateProfile(StartProfile(db, f, key, p), p, m)
      newdb == Put(db, key, pd)
      disc == DiscountPct(pd, p, m)
  IN [db |-> newdb,
      file |-> SavePriceDatabase(newdb, f, outcome),
      is_good_deal |-> IsGoodDeal(disc, pd.price_trend),
      discount |-> disc]

\* ------------------------------------------------------------ variables
VARIABLES price_database, file, month, calls, runs, lastCall, base, submitted

\* the multi-date job (get_multiple_date_options)
VARIABLES dates_to_search, fut, out, wpc, wq, driver, results, yielded,
          mainpc, attempts, raised

storeVars == <<price_database, file, month, calls, runs, lastCall, base, submitted>>

jobVars == <<dates_to_search, fut, out, wpc, wq, driver, results, yielded,
             mainpc, attempts, raised>>

\* threads inside _check_if_good_deal: where each one is (rpc), which
\* of its prices it is submitting (ridx), the profile object its local
\* price_data names (ref), the count it has read (tmp); the profile
\* objects (heap, named by the thread that made them) and the object that
\* price_database[route_key] names (bound, 0 for none)
VARIABLES rpc, ridx, ref, tmp, heap, bound

raceVars == <<rpc, ridx, ref, tmp, heap, bound>>

\* one call of a pure function of the repository: which function (fn, ""
\* before the call), its arguments (args) and what it returned (ret)
VARIABLES fn, args, ret

fnVars == <<fn, args, ret>>

vars == <<storeVars, jobVars, raceVars, fnVars>>

Threads == 1..RaceWorkers

Workers == 1..MaxWorkers
NoPage == <<-1, -1>>
NoDate == -1

\* extended_search.py line 133: the search window, in days from now
SearchWindow == 500

NoCall == [key |-> "", price |-> 0, is_good_deal |-> FALSE, discount |-> 0,
           created |-> FALSE, save |-> "", before |-> {}, month |-> 0]

Init ==
  /\ price_database = <<>>
  /\ file = NoFile
  /\ month = 1
  /\ calls = 0
  /\ runs = 1
  /\ lastCall = NoCall
  /\ base = [k \in Keys |-> <<>>]
  /\ submitted = [k \in Keys |-> <<>>]
  /\ dates_to_search = <<>>
  /\ fut = <<>>
  /\ out = <<>>
  /\ wpc = [w \in Workers |-> "idle"]
  /\ wq = [w \in Workers |-> 0]
  /\ driver = NoPage
  /\ results = <<>>
  /\ yielded = {}
  /\ mainpc = "idle"
  /\ attempts = <<>>
  /\ raised = <<>>
  /\ rpc = [w \in Threads |-> "check"]
  /\ ridx = [w \in Threads |-> 1]
  /\ ref = [w \in Threads |-> 0]
  /\ tmp = [w \in Threads |-> 0]
  /\ heap = <<>>
  /\ bound = 0
  /\ fn = ""
  /\ args = <<>>
  /\ ret = <<>>

\* One call of _check_if_good_deal in a single-threaded process.  base and
\* submitted are history variables: the price list the profile had when it
\* entered memory in this run, and the <<price, month>> pairs submitted since.
EvaluateStore(key, p, outcome) ==
  LET r == CheckIfGoodDeal(price_database, file, key, p, month, outcome)
      start == StartProfile(price_database, file, key, p)
  IN /\ price_database' = r.db
     /\ file' = r.file
     /\ calls' = calls + 1
     /\ lastCall' = [key |-> key, price |-> p, is_good_deal |-> r.is_good_deal,
                     discount |-> r.discount,
                     created |-> Creates(price_database, file, key),
                     save |-> outcome,
                     before |-> IF file.exists /\ ~file.corrupt
                                THEN DOMAIN file.content ELSE {},
                     month |-> month]
     /\ base' = IF key \in DOMAIN price_database THEN base
                ELSE [base EXCEPT ![key] = start.prices]
     /\ submitted' = [submitted EXCEPT ![key] = Append(@, <<p, month>>)]
     /\ UNCHANGED <<month, runs>>

Evaluate(key, p, outcome) ==
  /\ EvaluateStore(key, p, outcome)
  /\ UNCHANGED <<jobVars, raceVars, fnVars>>

\* Spec: several routes, several process runs
EvaluateAny ==
  /\ calls < MaxCalls
  /\ \E key \in Keys, p \in RunPrices, outcome \in SaveOutcomes :
       Evaluate(key, p, outcome)

\* datetime.now().month moves on between calls (line 437)
Tick ==
  /\ month < NumMonths
  /\ month' = month + 1
  /\ UNCHANGED <<price_database, file, calls, runs, lastCall, base, submitted>>
  /\ UNCHANGED <<jobVars, raceVars, fnVars>>

\* The process ends and a new one starts: __init__ (line 39) gives it an
\* empty price_database; price_database.json stays as it was written.
Restart ==
  /\ runs < MaxRuns
  /\ calls > 0
  /\ price_database' = <<>>
  /\ runs' = runs + 1
  /\ lastCall' = NoCall
  /\ base' = [k \in Keys |-> <<>>]
  /\ submitted' = [k \in Keys |-> <<>>]
  /\ UNCHANGED <<file, month, calls>>
  /\ UNCHANGED <<jobVars, raceVars, fnVars>>

Next == EvaluateAny \/ Tick \/ Restart

Spec == Init /\ [][Next]_vars

\* SpecKey: one route in one process run
EvaluateOne ==
  /\ calls < MaxKeyCalls
  /\ \E p \in Prices, outcome \in SaveOutcomes : Evaluate(TheKey, p, outcome)

NextKey == EvaluateOne \/ Tick

SpecKey == Init /\ [][NextKey]_vars

\* SpecFifo: one route fed a long run of prices, increasing up to the
\* capacity of the history and then either the next price or a low one
FifoPrices(n) == IF n <= HistoryCap - 2 THEN {n} ELSE {n, 1}

EvaluateFifo ==
  /\ calls < FifoLen
  /\ \E p \in FifoPrices(calls + 1) : Evaluate(TheKey, p, "ok")

NextFifo == EvaluateFifo

SpecFifo == Init /\ [][NextFifo]_vars

\* SpecDeal: one route in one process run, with prices far enough apart
\* for the discount to fall between the three thresholds
EvaluateDeal ==
  /\ calls < MaxDealCalls
  /\ \E p \in DealPrices : Evaluate(TheKey, p, "ok")

NextDeal == EvaluateDeal \/ Tick

SpecDeal == Init /\ [][NextDeal]_vars

\* ------------------------------------------ get_multiple_date_options
\* Dates are day numbers; a query is <<departure, return>>, NoDate for a
\* one-way search.  premium_only is off (its default).

\* the same loop counting i from 1 rather than 0
DatesFromOne(start, num_days, return_trip, days_between) ==
  [i \in 1..num_days |->
     <<start + i,
       IF return_trip THEN start + i + days_between ELSE NoDate>>]

\* lines 694-700
DatesToSearch(start, num_days, return_trip, days_between) ==
  [i \in 1..num_days |->
     <<start + (i - 1),
       IF return_trip THEN start + (i - 1) + days_between ELSE NoDate>>]

\* what the fare source shows for a query: one flight, priced by the date
PriceOn(q) == 10 + 10 * (q[1] % 3)

Idx == DOMAIN dates_to_search

Finished(i) == fut[i] \in {"result", "exit"}

\* lines 689-719: plan the dates and submit one task per date
Plan(return_trip) ==
  /\ mainpc = "idle"
  /\ dates_to_search' = DatesToSearch(0, NumDays, return_trip, 7)
  /\ fut' = [i \in 1..NumDays |-> "pending"]
  /\ out' = [i \in 1..NumDays |-> <<>>]
  /\ attempts' = [i \in 1..NumDays |-> 0]
  /\ raised' = [i \in 1..NumDays |-> FALSE]
  /\ results' = <<>>
  /\ yielded' = {}
  /\ mainpc' = "collecting"
  /\ UNCHANGED <<wpc, wq, driver>>
  /\ UNCHANGED <<storeVars, raceVars, fnVars>>

\* ThreadPoolExecutor: a free worker thread takes the oldest queued task
\* and enters search_single_date / search_flights (lines 703-707, 133)
Take(w) ==
  /\ wpc[w] = "idle"
  /\ \E i \in Idx :
       /\ fut[i] = "pending"
       /\ \A j \in Idx : j < i => fut[j] # "pending"
       /\ fut' = [fut EXCEPT ![i] = "running"]
       /\ wq' = [wq EXCEPT ![w] = i]
       /\ attempts' = [attempts EXCEPT ![i] = @ + 1]
  /\ wpc' = [wpc EXCEPT ![w] = "get"]
  /\ UNCHANGED <<dates_to_search, out, driver, results, yielded, mainpc, raised>>
  /\ UNCHANGED <<storeVars, raceVars, fnVars>>

\* line 141: self.driver.get(url) on the one browser all threads share
Get(w, ok) ==
  /\ wpc[w] = "get"
  /\ IF ok
     THEN /\ driver' = dates_to_search[wq[w]]
          /\ wpc' = [wpc EXCEPT ![w] = "wait"]
          /\ UNCHANGED raised
     ELSE /\ wpc' = [wpc EXCEPT ![w] = "error"]
          /\ raised' = [raised EXCEPT ![wq[w]] = TRUE]
          /\ UNCHANGED driver
  /\ UNCHANGED <<dates_to_search, fut, out, wq, results, yielded, mainpc, attempts>>
  /\ UNCHANGED <<storeVars, raceVars, fnVars>>

\* lines 144-149: wait for the result list; a timeout raises
Wait(w, ok) ==
  /\ wpc[w] = "wait"
  /\ wpc' = [wpc EXCEPT ![w] = IF ok THEN "extract" ELSE "error"]
  /\ raised' = [raised EXCEPT ![wq[w]] = @ \/ ~ok]
  /\ UNCHANGED <<dates_to_search, fut, out, wq, driver, results, yielded,
                 mainpc, attempts>>
  /\ UNCHANGED <<storeVars, raceVars, fnVars>>

\* lines 206, 218-307, 708: read the flights off the page the browser shows
\* now, evaluate each and return (departure_date, flights).  The job is
\* explored with saves that succeed; Spec and SpecKey explore the others.
Extract(w, outcome) ==
  /\ wpc[w] = "extract"
  /\ EvaluateStore(TheKey, PriceOn(driver), outcome)
  /\ out' = [out EXCEPT ![wq[w]] =
               <<[page |-> driver, price |-> PriceOn(driver),
                  is_good_deal |-> lastCall'.is_good_deal,
                  discount_percentage |-> lastCall'.discount]>>]
  /\ fut' = [fut EXCEPT ![wq[w]] = "result"]
  /\ wpc' = [wpc EXCEPT ![w] = "idle"]
  /\ wq' = [wq EXCEPT ![w] = 0]
  /\ UNCHANGED <<dates_to_search, driver, results, yielded, mainpc, attempts, raised>>
  /\ UNCHANGED <<raceVars, fnVars>>

\* lines 208-216 and 709-711: the handler takes a screenshot and calls
\* sys.exit(1); SystemExit is no Exception, so search_single_date does not
\* catch it and the future holds it.  If the screenshot itself raises, that
\* Exception reaches search_single_date, which returns (departure_date, []).
ErrorHandler(w, screenshot_ok) ==
  /\ wpc[w] = "error"
  /\ fut' = [fut EXCEPT ![wq[w]] = IF screenshot_ok THEN "exit" ELSE "result"]
  /\ wpc' = [wpc EXCEPT ![w] = "idle"]
  /\ wq' = [wq EXCEPT ![w] = 0]
  /\ UNCHANGED <<dates_to_search, out, driver, results, yielded, mainpc,
                 attempts, raised>>
  /\ UNCHANGED <<storeVars, raceVars, fnVars>>

\* lines 722-728: as_completed yields a finished future; result() returns
\* the pair or re-raises what the task raised
Collect(i) ==
  /\ mainpc = "collecting"
  /\ i \in Idx \ yielded
  /\ Finished(i)
  /\ yielded' = yielded \cup {i}
  /\ IF fut[i] = "result"
     THEN /\ results' = [d \in DOMAIN results \cup {dates_to_search[i][1]} |->
                          IF d = dates_to_search[i][1] THEN out[i] ELSE results[d]]
          /\ mainpc' = mainpc
     ELSE /\ mainpc' = "shutdown"
          /\ UNCHANGED results
  /\ UNCHANGED <<dates_to_search, fut, out, wpc, wq, driver, attempts, raised>>
  /\ UNCHANGED <<storeVars, raceVars, fnVars>>

\* line 730, after the with block has joined the pool
Return ==
  /\ mainpc = "collecting"
  /\ yielded = Idx
  /\ mainpc' = "returned"
  /\ UNCHANGED <<dates_to_search, fut, out, wpc, wq, driver, results, yielded,
                 attempts, raised>>
  /\ UNCHANGED <<storeVars, raceVars, fnVars>>

\* the with block left as by shutdown(wait=False)
AbortNoWait ==
  /\ mainpc = "shutdown"
  /\ mainpc' = "exited"
  /\ UNCHANGED <<dates_to_search, fut, out, wpc, wq, driver, results, yielded,
                 attempts, raised>>
  /\ UNCHANGED <<storeVars, raceVars, fnVars>>

\* line 714: leaving the with block on SystemExit waits for every queued
\* task (shutdown(wait=True)), then the exception leaves the function
Abort ==
  /\ mainpc = "shutdown"
  /\ \A i \in Idx : Finished(i)
  /\ mainpc' = "exited"
  /\ UNCHANGED <<dates_to_search, fut, out, wpc, wq, driver, results, yielded,
                 attempts, raised>>
  /\ UNCHANGED <<storeVars, raceVars, fnVars>>

NextJob ==
  \/ \E rt \in BOOLEAN : Plan(rt)
  \/ \E w \in Workers : Take(w)
  \/ \E w \in Workers, ok \in BOOLEAN : Get(w, ok)
  \/ \E w \in Workers, ok \in BOOLEAN : Wait(w, ok)
  \/ \E w \in Workers : Extract(w, "ok")
  \/ \E w \in Workers, ok \in BOOLEAN : ErrorHandler(w, ok)
  \/ \E i \in Idx : Collect(i)
  \/ Return
  \/ Abort

SpecJob == Init /\ [][NextJob]_vars

\* The job is cancelled: KeyboardInterrupt reaches the main thread while it
\* waits in as_completed (line 722); nothing in 714-728 catches it
Cancel ==
  /\ mainpc = "collecting"
  /\ yielded # Idx
  /\ mainpc' = "cancelled"
  /\ UNCHANGED <<dates_to_search, fut, out, wpc, wq, driver, results, yielded,
                 attempts, raised>>
  /\ UNCHANGED <<storeVars, raceVars, fnVars>>

\* line 714: the interrupt leaves the with block, whose __exit__ is
\* shutdown(wait=True): the tasks still queued are run, not cancelled
Join ==
  /\ mainpc = "cancelled"
  /\ \A i \in Idx : Finished(i)
  /\ mainpc' = "exited"
  /\ UNCHANGED <<dates_to_search, fut, out, wpc, wq, driver, results, yielded,
                 attempts, raised>>
  /\ UNCHANGED <<storeVars, raceVars, fnVars>>

NextCancel ==
  \/ \E rt \in BOOLEAN : Plan(rt)
  \/ \E w \in Workers : Take(w)
  \/ \E w \in Workers, ok \in BOOLEAN : Get(w, ok)
  \/ \E w \in Workers, ok \in BOOLEAN : Wait(w, ok)
  \/ \E w \in Workers : Extract(w, "ok")
  \/ \E w \in Workers, ok \in BOOLEAN : ErrorHandler(w, ok)
  \/ \E i \in Idx : Collect(i)
  \/ Return
  \/ Abort
  \/ Cancel
  \/ Join

SpecCancel == Init /\ [][NextCancel]_vars

\* ----------------------- _check_if_good_deal run by the pool's threads
\* Every thread of the pool calls _check_if_good_deal on the one scraper
\* (line 284 via 707) with no lock.  A step is a run of statements between
\* two points where CPython may switch threads; the statements of lines
\* 408-445 are taken as one step, the read and the write of count (line
\* 454) as two.

\* the prices thread w submits, in order
RacePrice(w, i) == 10 * w + i

View(h, b) == IF b = 0 THEN <<>> ELSE [k \in {TheKey} |-> h[b]]

RaceFrame == UNCHANGED <<month, calls, runs, lastCall, base, submitted, jobVars, fnVars>>

\* line 352
RCheck(w) ==
  /\ rpc[w] = "check"
  /\ rpc' = [rpc EXCEPT ![w] = IF bound # 0 THEN "get" ELSE "init"]
  /\ UNCHANGED <<ridx, ref, tmp, heap, bound, price_database, file>>
  /\ RaceFrame

\* lines 353-402: bind a new profile object, whatever is bound by now
RInit(w) ==
  /\ rpc[w] = "init"
  /\ heap' = Put(heap, w, StartProfile(<<>>, file, TheKey, RacePrice(w, ridx[w])))
  /\ bound' = w
  /\ price_database' = View(heap', bound')
  /\ rpc' = [rpc EXCEPT ![w] = "get"]
  /\ UNCHANGED <<ridx, ref, tmp, file>>
  /\ RaceFrame

\* line 405
RGet(w) ==
  /\ rpc[w] = "get"
  /\ ref' = [ref EXCEPT ![w] = bound]
  /\ rpc' = [rpc EXCEPT ![w] = "stats"]
  /\ UNCHANGED <<ridx, tmp, heap, bound, price_database, file>>
  /\ RaceFrame

\* lines 408-445, on the object price_data names
RStats(w) ==
  /\ rpc[w] = "stats"
  /\ heap' = [heap EXCEPT ![ref[w]] =
                [UpdateProfile(@, RacePrice(w, ridx[w]), month)
                   EXCEPT !.count = heap[ref[w]].count]]
  /\ price_database' = View(heap', bound)
  /\ rpc' = [rpc EXCEPT ![w] = "cnt_read"]
  /\ UNCHANGED <<ridx, ref, tmp, bound, file>>
  /\ RaceFrame

\* line 454, the read of price_data["count"]
RCountRead(w) ==
  /\ rpc[w] = "cnt_read"
  /\ tmp' = [tmp EXCEPT ![w] = heap[ref[w]].count]
  /\ rpc' = [rpc EXCEPT ![w] = "cnt_write"]
  /\ UNCHANGED <<ridx, ref, heap, bound, price_database, file>>
  /\ RaceFrame

\* line 454, the store of the sum
RCountWrite(w) ==
  /\ rpc[w] = "cnt_write"
  /\ heap' = [heap EXCEPT ![ref[w]].count = tmp[w] + 1]
  /\ price_database' = View(heap', bound)
  /\ rpc' = [rpc EXCEPT ![w] = "save"]
  /\ UNCHANGED <<ridx, ref, tmp, bound, file>>
  /\ RaceFrame

\* line 458
RSave(w, outcome) ==
  /\ rpc[w] = "save"
  /\ file' = SavePriceDatabase(price_database, file, outcome)
  /\ rpc' = [rpc EXCEPT ![w] = "return"]
  /\ UNCHANGED <<ridx, ref, tmp, heap, bound, price_database>>
  /\ RaceFrame

\* lines 461-483, then the thread's next observation
RReturn(w) ==
  /\ rpc[w] = "return"
  /\ ridx' = [ridx EXCEPT ![w] = IF @ < RaceM THEN @ + 1 ELSE @]
  /\ rpc' = [rpc EXCEPT ![w] = IF ridx[w] < RaceM THEN "check" ELSE "done"]
  /\ UNCHANGED <<ref, tmp, heap, bound, price_database, file>>
  /\ RaceFrame

NextRace ==
  \/ \E w \in Threads : RCheck(w)
  \/ \E w \in Threads : RInit(w)
  \/ \E w \in Threads : RGet(w)
  \/ \E w \in Threads : RStats(w)
  \/ \E w \in Threads : RCountRead(w)
  \/ \E w \in Threads : RCountWrite(w)
  \/ \E w \in Threads, outcome \in SaveOutcomes : RSave(w, outcome)
  \/ \E w \in Threads : RReturn(w)

SpecRace == Init /\ [][NextRace]_vars

\* ------------------------------------------------------- query planning
\* Dates are day numbers.  strptime and strftime with "%Y-%m-%d" take a
\* date to its day and back, and timedelta(days=n) adds n to the day.

\* date_utils.generate_date_range: the departure dates alone
GenerateDateRange(start, num_days) == [i \in 1..num_days |-> start + (i - 1)]

\* one planning call of get_multiple_date_options next to
\* generate_date_range on the same start and count
CallDates ==
  /\ fn = ""
  /\ \E start \in 0..2, num_days \in -1..MaxPlanDays,
        return_trip \in BOOLEAN, days_between \in 1..7 :
       /\ fn' = "dates_to_search"
       /\ args' = [start |-> start, num_days |-> num_days,
                   return_trip |-> return_trip, days_between |-> days_between]
       /\ ret' = [queries |-> DatesToSearch(start, num_days, return_trip,
                                            days_between),
                  dates |-> GenerateDateRange(start, num_days)]
  /\ UNCHANGED <<storeVars, jobVars, raceVars>>

NextPlan == CallDates

SpecPlan == Init /\ [][NextPlan]_vars

\* range(lo, hi, step) of Python, step > 0, as a sequence
PyRange(lo, hi, step) ==
  [k \in 1..(IF hi <= lo THEN 0 ELSE (hi - lo - 1) \div step + 1) |->
     lo + (k - 1) * step]

\* the pairs of one departure date, one per stay length, in stay order
PairsOf(d, stays) == [k \in 1..Len(stays) |-> <<d, d + stays[k]>>]

\* date_utils.generate_date_pairs, the while loop from current_date on
RECURSIVE DatePairsFrom(_, _, _, _)
DatePairsFrom(current_date, end, trip_min_days, trip_max_days) ==
  IF current_date > end THEN <<>>
  ELSE LET InRange(q) == q[2] <= end
       IN SelectSeq(PairsOf(current_date,
                            PyRange(trip_min_days, trip_max_days + 1, 1)),
                    InRange)
          \o DatePairsFrom(current_date + 1, end, trip_min_days, trip_max_days)

GenerateDatePairs(start, end, trip_min_days, trip_max_days) ==
  DatePairsFrom(start, end, trip_min_days, trip_max_days)

\* extended_search.generate_extended_dates: every check_interval-th day
\* from now + start_days up to now + max_days
GenerateExtendedDates(now, start_days, max_days, check_interval) ==
  PyRange(now + start_days, now + max_days + 1, check_interval)

\* extended_search.generate_smart_date_pairs
RECURSIVE GenerateSmartDatePairs(_, _, _, _, _)
GenerateSmartDatePairs(dates, min_stay, max_stay, stay_interval, now) ==
  IF dates = <<>> THEN <<>>
  ELSE LET max_date == now + SearchWindow
           Kept(q) == ~(q[2] > max_date)
       IN SelectSeq(PairsOf(Head(dates),
                            PyRange(min_stay, max_stay + 1, stay_interval)),
                    Kept)
          \o GenerateSmartDatePairs(Tail(dates), min_stay, max_stay,
                                    stay_interval, now)

\* schedule_deals.generate_dates
GenerateDates(now, start_days, num_days, check_days) ==
  LET offs == PyRange(0, num_days, check_days)
  IN [k \in 1..Len(offs) |-> now + start_days + offs[k]]

\* schedule_deals.generate_date_pairs
RECURSIVE ScheduleDatePairs(_, _, _)
ScheduleDatePairs(dates, min_stay, max_stay) ==
  IF dates = <<>> THEN <<>>
  ELSE PairsOf(Head(dates), PyRange(min_stay, max_stay + 1, 1))
       \o ScheduleDatePairs(Tail(dates), min_stay, max_stay)

\* scheduler.scrape_route plans with date_utils.generate_date_pairs
CallDatePairs ==
  /\ fn = ""
  /\ \E start \in 0..1, end \in 0..(1 + PairDays),
        min_stay \in 1..2, max_stay \in 1..MaxStay :
       /\ fn' = "generate_date_pairs"
       /\ args' = [departures |-> start..end, min_stay |-> min_stay,
                   max_stay |-> max_stay, stay_interval |-> 1,
                   has_ceiling |-> TRUE, ceiling |-> end]
       /\ ret' = GenerateDatePairs(start, end, min_stay, max_stay)
  /\ UNCHANGED <<storeVars, jobVars, raceVars>>

\* extended_search plans over the dates of generate_extended_dates
CallSmartPairs ==
  /\ fn = ""
  /\ \E now \in 0..1, back \in 1..PairDays, check_interval \in 1..2,
        min_stay \in 1..2, max_stay \in 1..MaxStay, stay_interval \in 1..2 :
       LET dates == GenerateExtendedDates(now, SearchWindow - back,
                                          SearchWindow, check_interval)
       IN /\ fn' = "generate_smart_date_pairs"
          /\ args' = [departures |-> {dates[k] : k \in DOMAIN dates},
                      min_stay |-> min_stay, max_stay |-> max_stay,
                      stay_interval |-> stay_interval,
                      has_ceiling |-> TRUE, ceiling |-> now + SearchWindow]
          /\ ret' = GenerateSmartDatePairs(dates, min_stay, max_stay,
                                           stay_interval, now)
  /\ UNCHANGED <<storeVars, jobVars, raceVars>>

\* schedule_deals plans over the dates of generate_dates
CallSchedulePairs ==
  /\ fn = ""
  /\ \E now \in 0..1, start_days \in 0..1, num_days \in 0..PairDays,
        check_days \in 1..2, min_stay \in 1..2, max_stay \in 1..MaxStay :
       LET dates == GenerateDates(now, start_days, num_days, check_days)
       IN /\ fn' = "schedule_date_pairs"
          /\ args' = [departures |-> {dates[k] : k \in DOMAIN dates},
                      min_stay |-> min_stay, max_stay |-> max_stay,
                      stay_interval |-> 1,
                      has_ceiling |-> FALSE, ceiling |-> 0]
          /\ ret' = ScheduleDatePairs(dates, min_stay, max_stay)
  /\ UNCHANGED <<storeVars, jobVars, raceVars>>

NextPairs == CallDatePairs \/ CallSmartPairs \/ CallSchedulePairs

SpecPairs == Init /\ [][NextPairs]_vars

\* ------------------------------------------------------ find_best_deals
\* A flight is the dictionary of lines 290-303 restricted to the columns
\* find_best_deals reads.  price_per_hour is in hundredths, value_score in
\* thousandths, discount_percentage and discount_threshold in hundredths of a
\* percent.  NaN is the missing value of a column (None in the dictionary);
\* Absent says that the dictionary has no value_score key.
NaN == -1
Absent == -2

\* line 300
PricePerHour(price, duration_hours) ==
  IF duration_hours > 0 THEN RoundDiv(price * 100, duration_hours) ELSE NaN

FlightData(price, duration_hours, discount_pct) ==
  [price |-> price, duration_hours |-> duration_hours,
   price_per_hour |-> PricePerHour(price, duration_hours),
   discount_percentage |-> discount_pct, value_score |-> Absent]

\* the flights a batch is drawn from: two share a price per hour, two a
\* discount, one has no duration
FlightKinds ==
  {FlightData(100, 10, 0), FlightData(200, 10, 3500), FlightData(240, 8, 5000),
   FlightData(80, 8, 3500), FlightData(150, 0, 5000)}

SortKeys ==
  {"value_score", "price_per_hour", "price", "duration_hours", "discount_percentage"}

Column(df, name) == {df[i][name] : i \in DOMAIN df}

MinOf(S) == CHOOSE x \in S : \A y \in S : x <= y
MaxOf(S) == CHOOSE x \in S : \A y \in S : x >= y

\* lines 512-521: the value_score column, from the whole frame
AddValueScore(df) ==
  LET known == Column(df, "price_per_hour") \ {NaN}
  IN IF known = {} THEN df
     ELSE LET min_pph == MinOf(known)
              max_pph == MaxOf(known)
          IN [i \in DOMAIN df |->
                [df[i] EXCEPT !.value_score =
                   IF min_pph = max_pph THEN 50 * FP
                   ELSE IF df[i].price_per_hour = NaN THEN NaN
                   ELSE RoundDiv(100 * FP * (df[i].price_per_hour - min_pph),
                                 max_pph - min_pph)]]

\* the filter with > in place of >=
FilterStrict(df, discount_threshold) ==
  IF discount_threshold > 0
  THEN LET Good(r) == r.discount_percentage > discount_threshold
       IN SelectSeq(df, Good)
  ELSE df

\* lines 524-526
Filter(df, discount_threshold) ==
  IF discount_threshold > 0
  THEN LET Good(r) == r.discount_percentage >= discount_threshold
       IN SelectSeq(df, Good)
  ELSE df

\* every key sorted upwards
AscendingAll(sort_by) == TRUE

\* lines 532-541: the direction of each sort key
Ascending(sort_by) == sort_by \in {"value_score", "price_per_hour", "price"}

\* sort_values puts missing values last, whichever the direction
InOrder(a, b, ascending) ==
  IF a = NaN THEN b = NaN
  ELSE b = NaN \/ (IF ascending THEN a <= b ELSE a >= b)

Perms(n) == {p \in [1..n -> 1..n] : \A i, j \in 1..n : p[i] = p[j] => i = j}

\* sort_values(by=name): pandas sorts with quicksort unless told otherwise,
\* which fixes no order among rows of equal key
SortValues(df, name, ascending) ==
  {s \in {[i \in DOMAIN df |-> df[p[i]]] : p \in Perms(Len(df))} :
     \A i, j \in DOMAIN s : i < j => InOrder(s[i][name], s[j][name], ascending)}

\* lines 532-541; the frame has a value_score column when a row has one
SortBy(df, sort_by) ==
  IF /\ sort_by \in SortKeys
     /\ sort_by = "value_score" => Column(df, "value_score") # {Absent}
  THEN SortValues(df, sort_by, Ascending(sort_by))
  ELSE {df}

\* DataFrame.head(n) is iloc[:n]: the first n rows, and for a negative n all
\* rows but the last -n
DfHead(df, n) ==
  IF n >= 0 THEN FirstN(df, n)
  ELSE FirstN(df, Max2(Len(df) + n, 0))

\* find_best_deals with the score taken after the filter
FindBestDealsScoreLate(flights, sort_by, limit, discount_threshold) ==
  IF flights = <<>> THEN {<<>>}
  ELSE LET df == AddValueScore(Filter(flights, discount_threshold))
       IN IF df = <<>> THEN {<<>>}
          ELSE {DfHead(s, limit) : s \in SortBy(df, sort_by)}

\* lines 493-544: the lists a call may return
FindBestDeals(flights, sort_by, limit, discount_threshold) ==
  IF flights = <<>> THEN {<<>>}
  ELSE LET df == Filter(AddValueScore(flights), discount_threshold)
       IN IF df = <<>> THEN {<<>>}
          ELSE {DfHead(s, limit) : s \in SortBy(df, sort_by)}

RECURSIVE Batches(_)
Batches(n) ==
  IF n = 0 THEN {<<>>}
  ELSE Batches(n - 1) \cup
       {Append(b, f) : b \in {c \in Batches(n - 1) : Len(c) = n - 1},
                       f \in FlightKinds}

\* one call of find_best_deals, and a second on what it returned with the
\* same parameters (main.py ranks the ranked flights again at line 194)
CallFindBestDeals ==
  /\ fn = ""
  /\ \E flights \in Batches(MaxFlights),
        sort_by \in SortKeys \cup {"airlines"},
        limit \in -1..MaxFlights,
        discount_threshold \in {-1000, 0, 3500, 10000} :
       /\ fn' = "find_best_deals"
       /\ args' = [flights |-> flights, sort_by |-> sort_by, limit |-> limit,
                   discount_threshold |-> discount_threshold]
       /\ \E first \in FindBestDeals(flights, sort_by, limit, discount_threshold) :
            \E again \in FindBestDeals(first, sort_by, limit, discount_threshold) :
              ret' = [first |-> first, again |-> again]
  /\ UNCHANGED <<storeVars, jobVars, raceVars>>

NextRank == CallFindBestDeals

SpecRank == Init /\ [][NextRank]_vars

\* ------------------------------------------------ _extract_flights_data
\* A flight card of the result page, as far as the price and the route key
\* go: the aria-label of its price element, a sequence of characters, and
\* its cabin class.  Every card of the model has airlines, times, airports,
\* stops and a duration of at least min_duration_hours.
NoPrice == -1

Digits == {"0", "1", "2", "3", "4", "5", "6", "7", "8", "9"}

DigitValue(c) ==
  CASE c = "0" -> 0 [] c = "1" -> 1 [] c = "2" -> 2 [] c = "3" -> 3
    [] c = "4" -> 4 [] c = "5" -> 5 [] c = "6" -> 6 [] c = "7" -> 7
    [] c = "8" -> 8 [] c = "9" -> 9

RECURSIVE Decimal(_)
Decimal(ds) ==
  IF ds = <<>> THEN 0
  ELSE 10 * Decimal(SubSeq(ds, 1, Len(ds) - 1)) + DigitValue(ds[Len(ds)])

\* the characters before the first "."
RECURSIVE IntegerPart(_)
IntegerPart(cs) ==
  IF cs = <<>> \/ Head(cs) = "." THEN <<>>
  ELSE <<Head(cs)>> \o IntegerPart(Tail(cs))

\* lines 313-320: float() of the digits and dots of the text, None when
\* float() raises; the texts of the model have no fractional digits
ExtractPrice(price_text) ==
  LET IsKept(c) == c \in Digits \cup {"."}
      IsDot(c) == c = "."
      IsDigit(c) == c \in Digits
      price_str == SelectSeq(price_text, IsKept)
  IN IF SelectSeq(price_str, IsDigit) = <<>> \/ Len(SelectSeq(price_str, IsDot)) > 1
     THEN NoPrice
     ELSE Decimal(IntegerPart(price_str))

PriceTexts ==
  {<<"$", "1", "0">>, <<"$", "2", "0">>, <<"$", "0">>, <<"$">>,
   <<"$", "1", ".", "2", ".", "3">>}

Cabins == {"Economy", "Business"}

Cards == [price_text : PriceTexts, cabin_class : Cabins]

\* line 280
RouteKey(cabin_class) ==
  IF cabin_class = "Economy" THEN "A-B-Economy" ELSE "A-B-Business"

RECURSIVE Pages(_)
Pages(n) ==
  IF n = 0 THEN {<<>>}
  ELSE Pages(n - 1) \cup
       {Append(pg, c) : pg \in {q \in Pages(n - 1) : Len(q) = n - 1}, c \in Cards}

\* lines 461-464: a division by a baseline of 0 raises ZeroDivisionError
DiscountRaises(pd, m) ==
  0 \in {pd.avg_price, pd.last_month_avg, pd.last_week_avg, SeasonalAvg(pd, m)}

\* line 222-224: the driver has loaded a page of cards
LoadPage ==
  /\ fn = ""
  /\ \E page \in Pages(MaxCards) :
       /\ fn' = "extract_flights_data"
       /\ args' = page
       /\ ret' = [flights |-> <<>>, next |-> 1]
  /\ UNCHANGED <<storeVars, jobVars, raceVars>>

\* lines 226-306: one turn of the loop over the cards.  A price of None
\* raises TypeError in _check_if_good_deal before anything is changed (at
\* 364 and again in the handler at 393, or at 408); a ZeroDivisionError of
\* lines 461-464 is raised after the update and the save.  Either reaches
\* the handler of line 305 and the card yields no flight.
ExtractCard ==
  /\ fn = "extract_flights_data"
  /\ ret.next <= Len(args)
  /\ LET price == ExtractPrice(args[ret.next].price_text)
         route_key == RouteKey(args[ret.next].cabin_class)
     IN IF price = NoPrice
        THEN /\ ret' = [ret EXCEPT !.next = @ + 1]
             /\ UNCHANGED <<price_database, file>>
        ELSE LET pd == UpdateProfile(StartProfile(price_database, file,
                                                  route_key, price),
                                     price, month)
                 newdb == Put(price_database, route_key, pd)
             IN /\ price_database' = newdb
                /\ file' = SavePriceDatabase(newdb, file, "ok")
                /\ ret' = [flights |->
                             IF DiscountRaises(pd, month) THEN ret.flights
                             ELSE Append(ret.flights,
                                    [price |-> price, route_key |-> route_key,
                                     is_good_deal |->
                                       IsGoodDeal(DiscountPct(pd, price, month),
                                                  pd.price_trend),
                                     discount_percentage |->
                                       DiscountPct(pd, price, month)]),
                           next |-> ret.next + 1]
  /\ fn' = fn
  /\ args' = args
  /\ UNCHANGED <<month, calls, runs, lastCall, base, submitted>>
  /\ UNCHANGED <<jobVars, raceVars>>

\* line 307
ReturnFlights ==
  /\ fn = "extract_flights_data"
  /\ ret.next > Len(args)
  /\ fn' = "extracted"
  /\ UNCHANGED <<args, ret>>
  /\ UNCHANGED <<storeVars, jobVars, raceVars>>

NextPage == LoadPage \/ ExtractCard \/ ReturnFlights

SpecPage == Init /\ [][NextPage]_vars

\* ---------------------------------------------------- retry_with_backoff
\* The locals of one call: retries and delay, with the number of calls of
\* func made (calls), the sleeps taken in order (sleeps) and how the call
\* ended (result: "" while it runs, "value" for func's result, "None", or
\* "raised" when func raised something that is no Exception).
FuncOutcomes == {"ok", "error", "exit"}

\* lines 744-745
RetryStart(initial_delay) ==
  [retries |-> 0, delay |-> initial_delay, calls |-> 0, sleeps |-> <<>>,
   result |-> ""]

\* one turn of the loop that sleeps after the last failure as well
RetryTurnSleepsLast(st, max_retries, outcome) ==
  IF outcome = "ok" THEN [st EXCEPT !.calls = @ + 1, !.result = "value"]
  ELSE IF outcome = "exit" THEN [st EXCEPT !.calls = @ + 1, !.result = "raised"]
  ELSE [retries |-> st.retries + 1,
        delay |-> st.delay * 2,
        calls |-> st.calls + 1,
        sleeps |-> Append(st.sleeps, st.delay),
        result |-> IF st.retries + 1 >= max_retries THEN "None" ELSE ""]

\* lines 748-758: one turn of the loop
RetryTurn(st, max_retries, outcome) ==
  IF outcome = "ok" THEN [st EXCEPT !.calls = @ + 1, !.result = "value"]
  ELSE IF outcome = "exit" THEN [st EXCEPT !.calls = @ + 1, !.result = "raised"]
  ELSE IF st.retries + 1 >= max_retries
  THEN [st EXCEPT !.retries = @ + 1, !.calls = @ + 1, !.result = "None"]
  ELSE [retries |-> st.retries + 1,
        delay |-> st.delay * 2,
        calls |-> st.calls + 1,
        sleeps |-> Append(st.sleeps, st.delay),
        result |-> ""]

CallRetry ==
  /\ fn = ""
  /\ \E max_retries \in -1..MaxRetryArg, initial_delay \in 1..3 :
       /\ fn' = "retry_with_backoff"
       /\ args' = [max_retries |-> max_retries, initial_delay |-> initial_delay]
       /\ ret' = RetryStart(initial_delay)
  /\ UNCHANGED <<storeVars, jobVars, raceVars>>

\* line 747 true: func is called and succeeds, raises an Exception or
\* raises something else
RetryLoop ==
  /\ fn = "retry_with_backoff"
  /\ ret.result = ""
  /\ ret.retries < args.max_retries
  /\ \E outcome \in FuncOutcomes : ret' = RetryTurn(ret, args.max_retries, outcome)
  /\ UNCHANGED <<fn, args>>
  /\ UNCHANGED <<storeVars, jobVars, raceVars>>

\* line 747 false on entry: the function falls off its end
RetryFallThrough ==
  /\ fn = "retry_with_backoff"
  /\ ret.result = ""
  /\ ~(ret.retries < args.max_retries)
  /\ ret' = [ret EXCEPT !.result = "None"]
  /\ UNCHANGED <<fn, args>>
  /\ UNCHANGED <<storeVars, jobVars, raceVars>>

NextRetry == CallRetry \/ RetryLoop \/ RetryFallThrough

SpecRetry == Init /\ [][NextRetry]_vars

\* the thread that runs the call keeps running
SpecRetryLive == SpecRetry /\ WF_vars(NextRetry)

\* ------------------------------------------------------ history helpers
SubmittedPrices(key) == [i \in 1..Len(submitted[key]) |-> submitted[key][i][1]]

MonthSamples(key, m) ==
  LET t == SelectSeq(submitted[key], LAMBDA x : x[2] = m)
  IN [i \in 1..Len(t) |-> t[i][1]]

Range(s) == {s[i] : i \in 1..Len(s)}

\* ---------------------------------------------------------------- claims

\* C1: after a Save by _check_if_good_deal, every route key that was in the
\* persisted file before the call is still in the persisted file.
C1_KeysNeverDeleted ==
  lastCall.save = "ok" => lastCall.before \subseteq DOMAIN file.content

\* the orders in which the threads' submissions can be serialized
RECURSIVE Serial(_)
Serial(rem) ==
  IF \A w \in DOMAIN rem : rem[w] = <<>> THEN {<<>>}
  ELSE UNION {{<<Head(rem[w])>> \o t : t \in Serial([rem EXCEPT ![w] = Tail(@)])} :
                w \in {x \in DOMAIN rem : rem[x] # <<>>}}

\* the store after the prices of o are evaluated one after the other
RECURSIVE SerialDb(_, _)
SerialDb(db, o) ==
  IF o = <<>> THEN db
  ELSE SerialDb(CheckIfGoodDeal(db, NoFile, TheKey, Head(o), 1, "ok").db, Tail(o))

RaceOrders == Serial([w \in Threads |-> [i \in 1..RaceM |-> RacePrice(w, i)]])

RaceDone == \A w \in Threads : rpc[w] = "done"

Section == {"init", "get", "stats", "cnt_read", "cnt_write", "save"}

\* C2: a fetch failure for one date never aborts the job: the job returns
\* a results map that holds every planned date, the failed ones with no
\* flights.
C2_FailureNeverAborts ==
  /\ mainpc \notin {"shutdown", "exited"}
  /\ mainpc = "returned" =>
       \A i \in Idx :
         /\ dates_to_search[i][1] \in DOMAIN results
         /\ raised[i] => results[dates_to_search[i][1]] = <<>>

\* C3: no lost updates: when N threads have each submitted M prices for one
\* key, the count covers the N x M submissions and the price history is the
\* one some sequential order of the submissions produces.
C3_NoLostUpdates ==
  RaceDone =>
    /\ TheKey \in DOMAIN price_database
    /\ price_database[TheKey].count >= RaceWorkers * RaceM
    /\ \E o \in RaceOrders :
         price_database[TheKey].prices = SerialDb(<<>>, o)[TheKey].prices

\* C4: at most one thread at a time is inside the update-and-save section
\* of _check_if_good_deal.
C4_StoreSerialized == Cardinality({w \in Threads : rpc[w] \in Section}) <= 1

\* C5: the flights stored in results under a departure date were all read
\* from the page of that date's own query.
C5_ResultsAttributed ==
  \A i \in Idx :
    dates_to_search[i][1] \in DOMAIN results =>
      \A n \in 1..Len(results[dates_to_search[i][1]]) :
        results[dates_to_search[i][1]][n].page = dates_to_search[i]

\* C6: a query whose fetch failed has been attempted MaxRetries times
\* before it is given up on.
C6_FailedQueryRetried ==
  \A i \in Idx : (raised[i] /\ Finished(i)) => attempts[i] = MaxRetries

\* C7: after each call, min_price <= p <= max_price for every price p
\* submitted so far to the key and for every entry of its price history.
C7_MinMaxBracket ==
  \A k \in DOMAIN price_database :
    \A p \in Range(SubmittedPrices(k)) \cup Range(price_database[k].prices) :
      /\ price_database[k].min_price <= Milli(p)
      /\ Milli(p) <= price_database[k].max_price

C7_Witness ==
  /\ TheKey \in DOMAIN price_database
  /\ SubmittedPrices(TheKey) = <<20, 30, 10>>
  /\ price_database[TheKey].min_price = Milli(10)
  /\ price_database[TheKey].max_price = Milli(30)

\* C8: the price history never holds more than HistoryCap entries and is
\* always the most recent entries appended, in order; after 105 increasing
\* prices 1..105 it is 6..105.
C8_HistoryFifo ==
  \A k \in DOMAIN price_database :
    /\ Len(price_database[k].prices) <= HistoryCap
    /\ price_database[k].prices = LastN(base[k] \o SubmittedPrices(k), HistoryCap)
    /\ (SubmittedPrices(k) = [i \in 1..105 |-> i])
         => price_database[k].prices = [i \in 1..HistoryCap |-> i + 5]

C8_Witness ==
  /\ TheKey \in DOMAIN price_database
  /\ SubmittedPrices(TheKey) = [i \in 1..105 |-> i]
  /\ Len(price_database[TheKey].prices) = HistoryCap
  /\ price_database[TheKey].prices[1] = 6

\* C9: every seasonal sample list has at most SeasonCap entries, and the
\* list of a month is the last SeasonCap prices submitted in that month.
C9_SeasonalBounded ==
  \A k \in DOMAIN price_database :
    LET sf == price_database[k].seasonal_factors
    IN /\ \A x \in DOMAIN sf : Len(sf[x]) <= SeasonCap
       /\ \A m \in Months :
            MonthSamples(k, m) # <<>> =>
              /\ IntKey(m) \in DOMAIN sf
              /\ sf[IntKey(m)] = LastN(MonthSamples(k, m), SeasonCap)

C9_Witness ==
  /\ TheKey \in DOMAIN price_database
  /\ MonthSamples(TheKey, 1) = <<10, 20, 30, 20>>
  /\ price_database[TheKey].seasonal_factors[IntKey(1)] = <<20, 30, 20>>

\* C10: with at least 3 history entries, price_trend is increasing iff the
\* last three are strictly ascending, decreasing iff strictly descending,
\* stable otherwise; [10,20,30], [30,20,10], [10,30,20] on a fresh key give
\* increasing, decreasing, stable.
C10_TrendOfLastThree ==
  \A k \in DOMAIN price_database :
    LET pd == price_database[k]
        l == LastN(pd.prices, 3)
    IN /\ Len(pd.prices) >= 3 =>
            /\ pd.price_trend = "increasing" <=> (l[1] < l[2] /\ l[2] < l[3])
            /\ pd.price_trend = "decreasing" <=> (l[1] > l[2] /\ l[2] > l[3])
            /\ pd.price_trend \in {"increasing", "decreasing", "stable"}
       /\ (base[k] = <<10>> /\ SubmittedPrices(k) = <<10, 20, 30>>)
            => pd.price_trend = "increasing"
       /\ (base[k] = <<30>> /\ SubmittedPrices(k) = <<30, 20, 10>>)
            => pd.price_trend = "decreasing"
       /\ (base[k] = <<10>> /\ SubmittedPrices(k) = <<10, 30, 20>>)
            => pd.price_trend = "stable"

C10_Witness ==
  /\ TheKey \in DOMAIN price_database
  /\ base[TheKey] = <<30>>
  /\ SubmittedPrices(TheKey) = <<30, 20, 10>>
  /\ price_database[TheKey].price_trend = "decreasing"

\* ----------------------------------------------------- the last verdict
Returned == lastCall.key # "" /\ lastCall.key \in DOMAIN price_database

LastProfile == price_database[lastCall.key]

\* the four discount candidates of the last call, from the profile as it
\* is after the call
Candidates ==
  {Discount(LastProfile.avg_price, lastCall.price),
   Discount(LastProfile.last_month_avg, lastCall.price),
   Discount(LastProfile.last_week_avg, lastCall.price),
   Discount(Mean(LastProfile.seasonal_factors[IntKey(lastCall.month)]),
            lastCall.price)}

\* C11: is_good_deal is true iff the discount is at least 30 percent under
\* an increasing trend, 40 under a decreasing one and 35 under a stable one.
C11_TrendThreshold ==
  Returned =>
    LET t == LastProfile.price_trend
        T == IF t = "increasing" THEN 30 ELSE IF t = "decreasing" THEN 40 ELSE 35
    IN lastCall.is_good_deal <=> (lastCall.discount >= T * 100)

C11_Witness ==
  /\ Returned
  /\ LastProfile.price_trend = "increasing"
  /\ lastCall.discount >= 3000
  /\ lastCall.discount < 3500
  /\ lastCall.is_good_deal

\* C12: the returned discount is the largest of the four candidates, each
\* taken against a baseline of the already-updated profile, and the
\* observation is flagged as soon as one candidate reaches the threshold.
C12_MaxOfUpdatedBaselines ==
  Returned =>
    /\ lastCall.discount \in Candidates
    /\ \A c \in Candidates : c <= lastCall.discount
    /\ \A c \in Candidates :
         c >= Threshold(LastProfile.price_trend) * 100 => lastCall.is_good_deal

C12_Witness ==
  /\ Returned
  /\ lastCall.is_good_deal
  /\ Cardinality(Candidates) >= 3
  /\ lastCall.discount = Discount(LastProfile.avg_price, lastCall.price)
  /\ Discount(LastProfile.last_week_avg, lastCall.price) < 3000

\* ------------------------------------------------------------- planning
Planned == fn = "dates_to_search"

\* C13: planning yields one query per departure date of
\* [start, start + num_days), in date order and without duplicates, the same
\* dates as generate_date_range; with return_trip each is paired with the one
\* return date days_between later, and without it with no return date.
C13_OneQueryPerDate ==
  Planned =>
    LET q == ret.queries
        n == IF args.num_days > 0 THEN args.num_days ELSE 0
    IN /\ Len(q) = n
       /\ Len(ret.dates) = n
       /\ \A i \in 1..n : q[i][1] = args.start + (i - 1) /\ ret.dates[i] = q[i][1]
       /\ {q[i][1] : i \in 1..n} = args.start..(args.start + args.num_days - 1)
       /\ \A i, j \in 1..n : i < j => q[i][1] < q[j][1]
       /\ \A i \in 1..n :
            q[i][2] = IF args.return_trip THEN q[i][1] + args.days_between
                      ELSE NoDate

C13_Witness ==
  /\ Planned
  /\ args.num_days = 3
  /\ args.return_trip
  /\ args.days_between = 7
  /\ Len(ret.queries) = 3
  /\ ret.queries[3] = <<args.start + 2, args.start + 9>>

Paired ==
  fn \in {"generate_date_pairs", "generate_smart_date_pairs", "schedule_date_pairs"}

\* the pairs the round-trip plan is to hold: every departure with every
\* stay length of [min_stay, max_stay] whose return is not after the ceiling
ExpectedPairs ==
  {q \in {<<d, d + s>> : d \in args.departures,
                          s \in args.min_stay..args.max_stay} :
     args.has_ceiling => q[2] <= args.ceiling}

\* C14: round-trip planning returns exactly the pairs (d, d + s) with d a
\* departure date, s a stay length in [min_stay, max_stay] and d + s not
\* after the ceiling, each pair once.
C14_ExactPairs ==
  Paired =>
    /\ {ret[k] : k \in DOMAIN ret} = ExpectedPairs
    /\ \A i, j \in DOMAIN ret : i # j => ret[i] # ret[j]

\* ------------------------------------------------------------ the pool
InFlight == {i \in Idx : fut[i] = "running"}

\* C15: at most max_workers fetches are in flight at any moment, each on a
\* thread of its own; every planned query is dispatched once and never
\* twice; the job ends only after every query has been dispatched and has
\* completed.
C15_BoundedParallelism ==
  /\ Cardinality(InFlight) <= MaxWorkers
  /\ Cardinality(InFlight) = Cardinality({w \in Workers : wpc[w] # "idle"})
  /\ \A i \in InFlight : \E w \in Workers : wq[w] = i /\ wpc[w] # "idle"
  /\ \A i \in Idx : attempts[i] = IF fut[i] = "pending" THEN 0 ELSE 1
  /\ mainpc \in {"returned", "exited"} =>
       \A i \in Idx : Finished(i) /\ attempts[i] = 1

C15_Witness ==
  /\ Cardinality(InFlight) = MaxWorkers
  /\ \E i \in Idx : fut[i] = "pending"
  /\ Len(dates_to_search) > MaxWorkers

\* -------------------------------------------------------------- ranking
Ranked == fn = "find_best_deals"

\* a returned flight as it was handed in, before the score was added
Strip(r) == [r EXCEPT !.value_score = Absent]

Count(seq, x) == Cardinality({i \in DOMAIN seq : seq[i] = x})

\* the flight reaches the threshold, or no threshold is set
Kept(r) ==
  args.discount_threshold > 0 => r.discount_percentage >= args.discount_threshold

KeptFlights == SelectSeq(args.flights, Kept)

Returns == [i \in DOMAIN ret.first |-> Strip(ret.first[i])]

\* C16: with a threshold above 0 no returned flight is below it and, unless
\* limit truncates, none at or above it is left out; with a threshold of 0 or
\* less nothing is filtered; a batch with no flight at the threshold gives
\* the empty list.
C16_FilterByThreshold ==
  Ranked =>
    /\ \A i \in DOMAIN ret.first : Kept(ret.first[i])
    /\ \A i \in DOMAIN Returns :
         Count(Returns, Returns[i]) <= Count(KeptFlights, Returns[i])
    /\ args.limit >= Len(KeptFlights) =>
         \A j \in DOMAIN KeptFlights :
           Count(Returns, KeptFlights[j]) = Count(KeptFlights, KeptFlights[j])
    /\ args.discount_threshold <= 0 => KeptFlights = args.flights
    /\ KeptFlights = <<>> => ret.first = <<>>

C16_Witness ==
  /\ Ranked
  /\ args.discount_threshold = 3500
  /\ args.limit >= Len(KeptFlights)
  /\ \E i \in DOMAIN ret.first : ret.first[i].discount_percentage = 3500
  /\ \E j \in DOMAIN args.flights : args.flights[j].discount_percentage < 3500

\* C17: the result is in ascending order of price, price_per_hour or
\* value_score, in descending order of duration_hours or
\* discount_percentage, and for any other sort key in the order of the input.
C17_Ordering ==
  Ranked =>
    LET res == ret.first
        k == args.sort_by
    IN /\ k \in {"price", "price_per_hour", "value_score"} =>
            \A i, j \in DOMAIN res :
              i < j /\ res[i][k] # NaN /\ res[j][k] # NaN => res[i][k] <= res[j][k]
       /\ k \in {"duration_hours", "discount_percentage"} =>
            \A i, j \in DOMAIN res : i < j => res[i][k] >= res[j][k]
       /\ k \notin SortKeys => Returns = DfHead(KeptFlights, args.limit)

C17_Witness ==
  /\ Ranked
  /\ args.sort_by = "duration_hours"
  /\ Len(ret.first) = 2
  /\ ret.first[1].duration_hours > ret.first[2].duration_hours
  /\ args.flights[1].duration_hours < args.flights[2].duration_hours

\* C18: the result is the first limit flights of the filtered, sorted
\* sequence when limit > 0 and is empty for every limit <= 0.
C18_Truncation ==
  Ranked =>
    /\ args.limit > 0 => Len(ret.first) = Min2(args.limit, Len(KeptFlights))
    /\ args.limit <= 0 => ret.first = <<>>

\* the prices per hour of the batch handed in that are defined
KnownPph == Column(args.flights, "price_per_hour") \ {NaN}

\* the score of a price per hour, over the whole batch handed in
ScoreOf(pph) ==
  IF MinOf(KnownPph) = MaxOf(KnownPph) THEN 50 * FP
  ELSE RoundDiv(100 * FP * (pph - MinOf(KnownPph)),
                MaxOf(KnownPph) - MinOf(KnownPph))

\* C19 as stated: when a flight of the batch has a price per hour, every
\* returned flight has the score 100 (pph - min) / (max - min) over the batch
\* handed in, between 0 and 100; 50 when all prices per hour are equal.
C19_ScoreEveryRecord ==
  Ranked /\ KnownPph # {} =>
    \A i \in DOMAIN ret.first :
      LET r == ret.first[i]
      IN /\ r.value_score >= 0
         /\ r.value_score <= 100 * FP
         /\ MinOf(KnownPph) = MaxOf(KnownPph) => r.value_score = 50 * FP

\* C19: when a flight of the batch has a price per hour, every returned
\* flight that has one has the score 100 (pph - min) / (max - min), min and
\* max over the batch handed in, so between 0 and 100, 0 for the cheapest
\* and 100 for the dearest; a flight without one has no score; when all
\* prices per hour are equal every returned flight has 50.
C19_ScoreOfKnownPph ==
  Ranked /\ KnownPph # {} =>
    \A i \in DOMAIN ret.first :
      LET r == ret.first[i]
      IN IF MinOf(KnownPph) = MaxOf(KnownPph) THEN r.value_score = 50 * FP
         ELSE IF r.price_per_hour = NaN THEN r.value_score = NaN
         ELSE /\ r.value_score = ScoreOf(r.price_per_hour)
              /\ r.value_score >= 0
              /\ r.value_score <= 100 * FP
              /\ r.price_per_hour = MinOf(KnownPph) <=> r.value_score = 0
              /\ r.price_per_hour = MaxOf(KnownPph) <=> r.value_score = 100 * FP

C19_Witness ==
  /\ Ranked
  /\ Len(ret.first) = 2
  /\ Len(args.flights) = 3
  /\ args.discount_threshold = 3500
  /\ ret.first[1].value_score = 50 * FP
  /\ ret.first[2].value_score = 100 * FP
  /\ MinOf(KnownPph) \notin Column(ret.first, "price_per_hour")

\* C20: ranking what find_best_deals returned, with the same parameters,
\* returns the same flights in the same order.
C20_Idempotent == Ranked => ret.again = ret.first

\* ----------------------------------------------------------- one page
Extracted == fn = "extracted"

\* a card whose price text gives a price above 0
Valid(c) == ExtractPrice(c.price_text) > 0

ValidCards == SelectSeq(args, Valid)

\* C21: the flights returned for a page are those of its cards with a valid
\* price, one for each and in the order of the page: a card with price 0 or
\* an unparsable price yields no flight and costs no other card its flight.
C21_MalformedDroppedAlone ==
  Extracted =>
    /\ Len(ret.flights) = Len(ValidCards)
    /\ \A i \in DOMAIN ret.flights :
         /\ i \in DOMAIN ValidCards
         /\ ret.flights[i].price = ExtractPrice(ValidCards[i].price_text)
         /\ ret.flights[i].route_key = RouteKey(ValidCards[i].cabin_class)

\* ------------------------------------------------------- failed saves
\* C22: whatever became of the save, the call returns its verdict and the
\* profile in memory holds every price submitted; after a save that
\* succeeded the file holds the whole database in memory, and so every
\* update made while saves were failing.
C22_FailedSaveNotFatal ==
  Returned =>
    /\ lastCall.is_good_deal <=>
         lastCall.discount >= Threshold(LastProfile.price_trend) * 100
    /\ lastCall.discount \in Candidates
    /\ LastProfile.prices =
         LastN(base[lastCall.key] \o SubmittedPrices(lastCall.key), HistoryCap)
    /\ lastCall.save = "ok" =>
         /\ file.exists /\ ~file.corrupt
         /\ file.content = JsonDump(price_database)
         /\ file.content[lastCall.key].prices =
              LastN(base[lastCall.key] \o SubmittedPrices(lastCall.key), HistoryCap)

C22_Witness ==
  /\ Returned
  /\ lastCall.save = "ok"
  /\ lastCall.before = {}
  /\ Len(submitted[lastCall.key]) >= 3
  /\ Len(file.content[lastCall.key].prices) = Len(submitted[lastCall.key]) + 1

\* -------------------------------------------------------- cancellation
\* C23: once the job has been cancelled no query that has not started is
\* dispatched: a query still pending stays pending.
C23_NoDispatchAfterCancel ==
  [][mainpc = "cancelled" =>
       \A i \in Idx : fut[i] = "pending" => fut'[i] = "pending"]_vars

\* ------------------------------------------------------------ creation
\* C24: after the call that creates a profile from price p, the profile has
\* min_price = p, max_price = 1.5 p and avg_price = 1.3 p.
C24_SeededProfile ==
  (Returned /\ lastCall.created) =>
    /\ LastProfile.min_price = Milli(lastCall.price)
    /\ LastProfile.max_price = (Milli(lastCall.price) * 15) \div 10
    /\ LastProfile.avg_price = (Milli(lastCall.price) * 13) \div 10

\* -------------------------------------------------------------- windows
\* C25: last_week_avg is the mean of the last 7 history entries once there
\* are 7, and last_month_avg the mean of the last 30 once there are 30;
\* with a shorter history each is still the first observed price.
C25_WindowMeans ==
  \A k \in DOMAIN price_database :
    LET pd == price_database[k]
    IN /\ pd.last_week_avg =
            IF Len(pd.prices) >= 7 THEN Mean(LastN(pd.prices, 7))
            ELSE Milli(pd.prices[1])
       /\ pd.last_month_avg =
            IF Len(pd.prices) >= 30 THEN Mean(LastN(pd.prices, 30))
            ELSE Milli(pd.prices[1])

C25_Witness ==
  /\ TheKey \in DOMAIN price_database
  /\ Len(price_database[TheKey].prices) = 30
  /\ price_database[TheKey].last_month_avg = Mean(price_database[TheKey].prices)
  /\ price_database[TheKey].last_week_avg > price_database[TheKey].last_month_avg
  /\ price_database[TheKey].last_month_avg > Milli(price_database[TheKey].prices[1])

\* --------------------------------------------------- first observation
\* C26: the call that creates the profile of a key never flags its price as
\* a good deal: the discount it returns is below the stable threshold.
C26_FirstNeverFlagged ==
  (Returned /\ lastCall.created) =>
    /\ ~lastCall.is_good_deal
    /\ lastCall.discount < BaseThreshold * 100

C26_Witness ==
  /\ Returned
  /\ lastCall.created
  /\ lastCall.price = 100
  /\ lastCall.discount > 2000
  /\ ~lastCall.is_good_deal

\* C27: after k calls for a key that had no profile, the profile's count
\* is k and its price history holds min(k, HistoryCap) entries.
C27_FreshBookkeeping ==
  TheKey \in DOMAIN price_database =>
    /\ price_database[TheKey].count = Len(submitted[TheKey])
    /\ Len(price_database[TheKey].prices) = Min2(Len(submitted[TheKey]), HistoryCap)

\* ------------------------------------------------- seasonal round trip
\* C28: when the profile in memory carries samples of the clock's month
\* that were read from the file, the call appends its price to that
\* sequence: the month has one sequence, which holds the samples read and
\* the new price, and a save that succeeds writes that sequence.
C28_SeasonalRoundTrip ==
  (Returned /\ StrKey(lastCall.month) \in DOMAIN LastProfile.seasonal_factors) =>
    LET sf == LastProfile.seasonal_factors
        m == lastCall.month
        used == IF IntKey(m) \in DOMAIN sf THEN sf[IntKey(m)] ELSE sf[StrKey(m)]
    IN /\ Cardinality({x \in DOMAIN sf : x[2] = m}) = 1
       /\ Len(used) >= 2
       /\ lastCall.save = "ok" =>
            Len(file.content[lastCall.key].seasonal_factors[StrKey(m)]) >= 2

\* ------------------------------------------------- average in the range
\* C29: after every call min_price <= avg_price <= max_price, so the
\* discount of a price equal to min_price against avg_price is not negative.
C29_AvgWithinExtrema ==
  \A k \in DOMAIN price_database :
    LET pd == price_database[k]
    IN /\ pd.min_price <= pd.avg_price
       /\ pd.avg_price <= pd.max_price
       /\ \A p \in Prices : Milli(p) = pd.min_price => Discount(pd.avg_price, p) >= 0

C29_Witness ==
  /\ Returned
  /\ Len(submitted[lastCall.key]) >= 3
  /\ LastProfile.min_price = Milli(lastCall.price)
  /\ LastProfile.max_price = Milli(30)
  /\ LastProfile.min_price < LastProfile.avg_price
  /\ LastProfile.avg_price < LastProfile.max_price
  /\ Discount(LastProfile.avg_price, lastCall.price) > 0

\* ---------------------------------------------------------------- retry
Retrying == fn = "retry_with_backoff"

RECURSIVE Pow2(_)
Pow2(k) == IF k = 0 THEN 1 ELSE 2 * Pow2(k - 1)

RetryBounds ==
  Retrying =>
    /\ ret.calls <= Max2(args.max_retries, 0)
    /\ \A k \in DOMAIN ret.sleeps : ret.sleeps[k] = args.initial_delay * Pow2(k - 1)
    /\ ret.result = "" => ret.calls = ret.retries /\ Len(ret.sleeps) = ret.retries
    /\ ret.result = "value" =>
         ret.calls = ret.retries + 1 /\ Len(ret.sleeps) = ret.retries
    /\ ret.result = "None" =>
         /\ ret.calls = Max2(args.max_retries, 0)
         /\ ret.retries = ret.calls
         /\ Len(ret.sleeps) = Max2(ret.calls - 1, 0)

\* C30: func is called at most max_retries times, the first success ends
\* the call with func's result, max_retries failures end it with None, the
\* wait before the k-th retry is initial_delay 2^(k-1) with none after the
\* last failure, with max_retries <= 0 func is never called and None is
\* returned, and every call ends.
C30_RetryContract == []RetryBounds /\ (Retrying ~> (Retrying /\ ret.result # ""))

C30_Witness ==
  /\ Retrying
  /\ args.max_retries = 3
  /\ args.initial_delay = 2
  /\ ret.result = "None"
  /\ ret.calls = 3
  /\ ret.sleeps = <<2, 4>>

====
